---------------------------- MODULE Spec2Model ----------------------------
(***************************************************************************)
(* Model of skyline::kernel::MemoryManager (kernel/memory.cpp): the guest  *)
(* address-space manager and its chunk map.                                *)
(*                                                                         *)
(* Addresses and sizes are counted in 4 KiB pages (the granularity of the  *)
(* entries of /proc/self/maps), so that the 36-bit and 39-bit layouts fit  *)
(* the model checker's integers: 0x78000000 bytes are 491520 pages.        *)
(***************************************************************************)
EXTENDS Integers, Sequences, FiniteSets

VARIABLES
    phase,          \* "new" | "ready" | "failed": before / after InitializeVmm
    addressSpace,   \* Region: the emulated address space
    base,           \* Region: the host carveout
    chunks,         \* the chunk list (std::vector<ChunkDescriptor>)
    lastOp,         \* the last call made on the manager and what it returned
    calls,          \* how many InsertChunk calls have been made
    committed,      \* the chunk list as the last whole InsertChunk left it
    mutex,          \* the std::shared_mutex guarding chunks
    pc,             \* per thread: where the thread is inside its call
    frame,          \* per thread: the locals of the call it is in
    regions,        \* the Regions code, alias, heap, stack and tlsIo
    scan            \* InitializeVmm followed pass by pass: its position and locals

vars == <<phase, addressSpace, base, chunks, lastOp, calls, committed, mutex, pc, frame,
          regions, scan>>

----------------------------------------------------------------------------
(* Bounds of the model *)

\* Number of 2 MiB steps above base.address at which a chunk may begin or end
GridSteps == 1

\* Longest host mapping table handed to InitializeVmm
MaxMappings == 2

\* Number of InsertChunk calls followed
MaxInserts == 3

\* Longest host mapping table followed pass by pass
MaxLines == 3

----------------------------------------------------------------------------
(* Program constants, in pages *)

\* 1UL << 36 bytes
AddressSpaceSize36 == 16777216

\* 1UL << 39 bytes
AddressSpaceSize39 == 134217728

\* 0x78000000 + 0x180000000 + 0x180000000 + 0x180000000 bytes
BaseSize36 == 491520 + 1572864 + 1572864 + 1572864

\* 0x78000000 + 0x1000000000 + 0x180000000 + 0x80000000 + 0x1000000000 bytes
BaseSize39 == 491520 + 16777216 + 1572864 + 524288 + 16777216

\* 1ULL << 21 bytes: the alignment of the carveout
CarveoutAlignment == 512

\* 0x78000000 bytes: code.size in both layouts
CodeSize == 491520

\* 0x180000000 bytes: alias.size of the 36-bit layout
AliasSize36 == 1572864

\* 0x180000000 bytes: stack.size of the 36-bit layout
StackSize36 == 1572864

\* 0x180000000 bytes: heap.size in both layouts
HeapSize == 1572864

\* 0x1000000000 bytes: alias.size of the 39-bit layout
AliasSize39 == 16777216

\* 0x80000000 bytes: stack.size of the 39-bit layout
StackSize39 == 524288

\* 0x1000000000 bytes: tlsIo.size of the 39-bit layout
TlsIoSize39 == 16777216

AddressSpaceTypes == {"AddressSpace32Bit", "AddressSpace36Bit", "AddressSpace39Bit"}

----------------------------------------------------------------------------
(* Values *)

Region(address, size) == [address |-> address, size |-> size]

\* The classifications (state, permission, attributes) the callers paint with
Classifications ==
    { [state |-> "Unmapped", permission |-> "---", attributes |-> 0],
      [state |-> "Heap",     permission |-> "RW-", attributes |-> 0],
      [state |-> "Heap",     permission |-> "R--", attributes |-> 0] }

ChunkDescriptor(ptr, size, class) ==
    [ptr |-> ptr, size |-> size, state |-> class.state,
     permission |-> class.permission, attributes |-> class.attributes]

ClassOf(chunk) ==
    [state |-> chunk.state, permission |-> chunk.permission,
     attributes |-> chunk.attributes]

\* A value-initialised descriptor; stands for "no chunk" in lastOp
NoChunk == [ptr |-> 0, size |-> 0, state |-> "None", permission |-> "---", attributes |-> 0]

IsCompatible(a, b) ==
    /\ a.state = b.state
    /\ a.permission = b.permission
    /\ a.attributes = b.attributes

AlignUp(value, multiple) == ((value + multiple - 1) \div multiple) * multiple

----------------------------------------------------------------------------
(* InitializeVmm *)

\* The host mappings a table may list (start and end of a line of
\* /proc/self/maps, already parsed), in ascending address order
HostMappings ==
    << [start |-> 16,       end |-> 100000],
       [start |-> 16,       end |-> 98100000],
       [start |-> 40000000, end |-> 40000100] >>

RECURSIVE Ascending(_, _)
\* The strictly increasing index sequences of length n over 1..Len(HostMappings)
\* whose entries are all greater than lo
Ascending(n, lo) ==
    IF n = 0 THEN { <<>> }
    ELSE UNION { { <<i>> \o rest : rest \in Ascending(n - 1, i) } :
                 i \in (lo + 1)..Len(HostMappings) }

\* The tables: up to MaxMappings mappings, ascending and not overlapping
MapsTables ==
    { maps \in UNION { { [k \in 1..n |-> HostMappings[idx[k]]] : idx \in Ascending(n, 0) } :
                       n \in 1..MaxMappings } :
        \A k \in 1..(Len(maps) - 1) : maps[k].end <= maps[k + 1].start }

RECURSIVE ScanMaps(_, _, _, _, _, _, _)
\* The do/while loop over the lines of the table: the address chosen for
\* base.address, 0 when the loop leaves it unset.  Position Len(maps) + 1 is
\* the pass the loop makes after the last newline, where the text has ended:
\* tailFits says whether the number read there leaves a gap that passes the
\* test (a value below start does, the unsigned difference wrapping), and the
\* search for '-' then fails and wraps to the start of the text.
ScanMaps(maps, tailFits, line, start, alignedStart, baseSize, spaceSize) ==
    LET listed == line <= Len(maps)
        fits == IF listed
                THEN maps[line].start - start > baseSize + (alignedStart - start)
                ELSE tailFits
    IN  IF fits THEN alignedStart
        ELSE LET nextStart == IF listed THEN maps[line].end ELSE maps[1].start
                 nextAligned == AlignUp(nextStart, CarveoutAlignment)
             IN  IF nextAligned + baseSize > spaceSize THEN 0
                 ELSE IF listed
                      THEN ScanMaps(maps, tailFits, line + 1, nextStart, nextAligned,
                                    baseSize, spaceSize)
                      ELSE 0

\* A chunk list that spans 1 << 36 bytes whatever the address space
InitialChunks36(space) ==
    << ChunkDescriptor(space.address, AddressSpaceSize36,
                       [state |-> "Unmapped", permission |-> "---", attributes |-> 0]) >>

\* The chunk list InitializeVmm leaves: one Unmapped chunk over the address space
InitialChunks(space) ==
    << ChunkDescriptor(space.address, space.size,
                       [state |-> "Unmapped", permission |-> "---", attributes |-> 0]) >>

\* The outcome of InitializeVmm(type) on a host mapping table
InitializeVmmResult(type, maps, tailFits) ==
    IF type = "AddressSpace32Bit"
    THEN [threw |-> TRUE, addressSpace |-> Region(0, 0), base |-> Region(0, 0),
          chunks |-> <<>>]
    ELSE LET spaceSize == IF type = "AddressSpace36Bit" THEN AddressSpaceSize36
                          ELSE AddressSpaceSize39
             baseSize == IF type = "AddressSpace36Bit" THEN BaseSize36 ELSE BaseSize39
             address == ScanMaps(maps, tailFits, 1, 0, 0, baseSize, spaceSize)
             space == Region(0, spaceSize)
         IN  IF address = 0
             THEN [threw |-> TRUE, addressSpace |-> space,
                   base |-> Region(0, baseSize), chunks |-> <<>>]
             ELSE [threw |-> FALSE, addressSpace |-> space,
                   base |-> Region(address, baseSize),
                   chunks |-> InitialChunks(space)]

----------------------------------------------------------------------------
(* InitializeRegions *)

\* The five sub-regions as the constructor leaves them
NoRegions ==
    [code |-> Region(0, 0), alias |-> Region(0, 0), heap |-> Region(0, 0),
     stack |-> Region(0, 0), tlsIo |-> Region(0, 0)]

\* a - b < c on unsigned 64-bit values with a, b, c below 2^43 bytes (all the
\* values of the model are): when b exceeds a the difference wraps to
\* 2^64 - (b - a) bytes, which is above every such c
WrappedDifferenceBelow(a, b, c) == IF b <= a THEN a - b < c ELSE FALSE

\* case 1UL << 36: the sub-regions from base.address on
Layout36(address) ==
    LET code == Region(address, CodeSize)
        alias == Region(code.address + code.size, AliasSize36)
    IN  [code |-> code, alias |-> alias,
         heap |-> Region(alias.address + alias.size, HeapSize),
         stack |-> Region(alias.address, StackSize36),
         tlsIo |-> Region(code.address, 0)]

\* case 1UL << 39: the sub-regions from base.address on
Layout39(address) ==
    LET code == Region(address, CodeSize)
        alias == Region(code.address + code.size, AliasSize39)
        heap == Region(alias.address + alias.size, HeapSize)
        stack == Region(heap.address + heap.size, StackSize39)
    IN  [code |-> code, alias |-> alias, heap |-> heap, stack |-> stack,
         tlsIo |-> Region(stack.address + stack.size, TlsIoSize39)]

\* The outcome of InitializeRegions(codeStart, size): whether it threw, and the
\* sub-regions as it left them (now holds them as they were)
InitializeRegionsResult(space, carveout, now, codeStart, size) ==
    IF space.size = AddressSpaceSize36
    THEN LET layout == Layout36(carveout.address)
         IN  IF \/ layout.code.address > codeStart
                \/ WrappedDifferenceBelow(layout.code.size,
                                          codeStart - layout.code.address, size)
             THEN [threw |-> TRUE, regions |-> [now EXCEPT !.code = layout.code]]
             ELSE [threw |-> size > layout.code.size, regions |-> layout]
    ELSE IF space.size = AddressSpaceSize39
    THEN LET layout == Layout39(carveout.address)
         IN  [threw |-> size > layout.code.size, regions |-> layout]
    ELSE [threw |-> TRUE, regions |-> now]

----------------------------------------------------------------------------
(* The chunk map *)

RECURSIVE UpperBoundFrom(_, _, _, _)
\* std::upper_bound's bisection over count elements of list from index first:
\* the index of the first element whose ptr is greater than value
UpperBoundFrom(list, first, count, value) ==
    IF count <= 0 THEN first
    ELSE LET step == count \div 2
             it == first + step
         IN  IF ~(value < list[it].ptr)
             THEN UpperBoundFrom(list, it + 1, count - (step + 1), value)
             ELSE UpperBoundFrom(list, first, step, value)

\* std::upper_bound(first, last, value, ptr < chunk.ptr); last is one past
UpperBound(list, first, last, value) == UpperBoundFrom(list, first, last - first, value)

\* vector::erase(first, last)
Erase(list, first, last) ==
    SubSeq(list, 1, first - 1) \o SubSeq(list, last, Len(list))

\* vector::insert(position, value)
InsertAt(list, position, value) ==
    SubSeq(list, 1, position - 1) \o <<value>> \o SubSeq(list, position, Len(list))

\* InsertChunk up to its throw: the position of upper, 1 when it throws
LocateUpper(list, chunk) == UpperBound(list, 1, Len(list) + 1, chunk.ptr)

\* InsertChunk, erase and truncation: the list afterwards (upper keeps its index)
EraseCovered(list, chunk) ==
    LET upper == LocateUpper(list, chunk)
        erased == Erase(list, upper,
                        UpperBound(list, upper, Len(list) + 1, chunk.ptr + chunk.size))
    IN  IF upper <= Len(erased) /\ erased[upper].ptr < chunk.ptr + chunk.size
        THEN LET end == erased[upper].ptr + erased[upper].size
             IN  [erased EXCEPT ![upper] =
                     [@ EXCEPT !.ptr = chunk.ptr + chunk.size,
                               !.size = end - (chunk.ptr + chunk.size)]]
        ELSE erased

\* std::max
Max(a, b) == IF a < b THEN b ELSE a

\* A retag that leaves the permission as it was
RetagKeepingPermission(low, chunk) ==
    [low EXCEPT !.state = chunk.state, !.attributes = chunk.attributes]

\* InsertChunk, exact match: lower takes the chunk's state, permission and
\* attributes
Retag(low, chunk) ==
    [low EXCEPT !.state = chunk.state,
                !.permission = chunk.permission,
                !.attributes = chunk.attributes]

\* InsertChunk, resolution against lower: list is the list after EraseCovered
\* and upper the index LocateUpper found in the list before it
ResolveLower(list, upper, chunk) ==
    LET lower == upper - 1
        low == list[lower]
        chunkEnd == chunk.ptr + chunk.size
    IN  IF low.ptr = chunk.ptr /\ low.size = chunk.size
        THEN [list EXCEPT ![lower] = Retag(low, chunk)]
        ELSE IF low.ptr + low.size > chunkEnd
        THEN LET lowerExtension == [low EXCEPT !.ptr = chunkEnd,
                                               !.size = (low.ptr + low.size) - chunkEnd]
                 shrunk == [list EXCEPT ![lower].size = chunk.ptr - low.ptr]
             IN  IF chunk.ptr - low.ptr # 0
                 THEN InsertAt(InsertAt(shrunk, upper, lowerExtension), upper, chunk)
                 ELSE InsertAt([list EXCEPT ![lower] = chunk], upper, lowerExtension)
        ELSE IF IsCompatible(chunk, low)
        THEN [list EXCEPT ![lower].size = Max(low.ptr + low.size, chunkEnd) - low.ptr]
        ELSE LET cut == IF low.ptr + low.size > chunk.ptr
                        THEN [list EXCEPT ![lower].size = chunk.ptr - low.ptr]
                        ELSE list
             IN  IF upper <= Len(cut) /\ IsCompatible(chunk, cut[upper])
                 THEN [cut EXCEPT ![upper] = [@ EXCEPT !.ptr = chunk.ptr,
                                                      !.size = chunk.size + @]]
                 ELSE InsertAt(cut, upper, chunk)

\* InsertChunk(chunk) as a whole
InsertChunkResult(list, chunk) ==
    LET upper == LocateUpper(list, chunk)
    IN  IF upper = 1
        THEN [threw |-> TRUE, chunks |-> list]
        ELSE [threw |-> FALSE,
              chunks |-> ResolveLower(EraseCovered(list, chunk), upper, chunk)]

\* A Get that returns the predecessor without looking at where it ends
GetResultAnyPredecessor(list, ptr) ==
    LET chunk == UpperBound(list, 1, Len(list) + 1, ptr)
    IN  IF chunk # 1
        THEN [found |-> TRUE, chunk |-> list[chunk - 1]]
        ELSE [found |-> FALSE, chunk |-> NoChunk]

\* Get(ptr): the chunk returned, found = FALSE for std::nullopt
GetResult(list, ptr) ==
    LET chunk == UpperBound(list, 1, Len(list) + 1, ptr)
    IN  IF chunk # 1 /\ list[chunk - 1].ptr + list[chunk - 1].size > ptr
        THEN [found |-> TRUE, chunk |-> list[chunk - 1]]
        ELSE [found |-> FALSE, chunk |-> NoChunk]

RECURSIVE SizeOfAllFrom(_, _)
\* The sizes of all chunks from index i on, the Unmapped ones included
SizeOfAllFrom(list, i) ==
    IF i > Len(list) THEN 0 ELSE list[i].size + SizeOfAllFrom(list, i + 1)

\* A GetProgramSize that does not leave out the Unmapped chunks
GetProgramSizeOfAll(list) == SizeOfAllFrom(list, 1)

RECURSIVE ProgramSizeFrom(_, _)
\* GetProgramSize's loop from index i on
ProgramSizeFrom(list, i) ==
    IF i > Len(list) THEN 0
    ELSE (IF list[i].state # "Unmapped" THEN list[i].size ELSE 0)
         + ProgramSizeFrom(list, i + 1)

GetProgramSizeResult(list) == ProgramSizeFrom(list, 1)

----------------------------------------------------------------------------
(* The manager used by one caller at a time: every call runs to its end *)

Threads == {"t1", "t2"}

\* The locals of a call: InsertChunk's chunk and upper, Get's ptr and result,
\* GetProgramSize's iterator, the end it was given, and size; seen is the set
\* of totals of the lists that whole InsertChunk calls left during the call
NoFrame == [chunk |-> NoChunk, upper |-> 0, ptr |-> 0, found |-> FALSE,
            ret |-> NoChunk, index |-> 0, end |-> 0, size |-> 0, seen |-> {}]

NoOp == [op |-> "none", chunk |-> NoChunk, ptr |-> 0, threw |-> FALSE,
         found |-> FALSE, ret |-> NoChunk, size |-> 0,
         codeStart |-> 0, codeSize |-> 0]

\* InitializeVmm's locals maps (as a table), line (as a line number), start
\* and alignedStart, and where the call is
NoScan == [pc |-> "idle", maps |-> <<>>, line |-> 0, start |-> 0, alignedStart |-> 0]

Init ==
    /\ phase = "new"
    /\ addressSpace = Region(0, 0)
    /\ base = Region(0, 0)
    /\ chunks = <<>>
    /\ lastOp = NoOp
    /\ calls = 0
    /\ committed = <<>>
    /\ mutex = [writer |-> "none", readers |-> {}]
    /\ pc = [t \in Threads |-> "idle"]
    /\ frame = [t \in Threads |-> NoFrame]
    /\ regions = NoRegions
    /\ scan = NoScan

\* The addresses at which the callers' chunks begin and end: the two ends of
\* the address space and 2 MiB steps from base.address on
InsertPoints ==
    {addressSpace.address, addressSpace.address + addressSpace.size}
        \cup { base.address + k * CarveoutAlignment : k \in 0..GridSteps }

\* One 2 MiB step past the end of the address space
PointsBeyond == { addressSpace.address + addressSpace.size + CarveoutAlignment }

\* The non-empty chunks with both ends among points
ChunksOver(points) ==
    { ChunkDescriptor(r[1], r[2] - r[1], class) :
        r \in { x \in points \X points : x[1] < x[2] }, class \in Classifications }

\* The addresses queried: every point, its neighbours, and the end of base
Probes ==
    LET points == InsertPoints \cup PointsBeyond
                    \cup {base.address + base.size}
    IN  { a \in points \cup { p + 1 : p \in points } \cup { p - 1 : p \in points } :
            a >= 0 }

\* The addresses Get is called with: below base, the first address of base,
\* and the first address past the address space
QueryPoints ==
    {addressSpace.address, base.address, addressSpace.address + addressSpace.size}

InitializeVmm ==
    /\ phase = "new"
    /\ \E type \in AddressSpaceTypes, maps \in MapsTables, tailFits \in BOOLEAN :
         LET r == InitializeVmmResult(type, maps, tailFits)
         IN  /\ phase' = IF r.threw THEN "failed" ELSE "ready"
             /\ addressSpace' = r.addressSpace
             /\ base' = r.base
             /\ chunks' = r.chunks
             /\ committed' = r.chunks
             /\ lastOp' = [NoOp EXCEPT !.op = "InitializeVmm", !.threw = r.threw]
    /\ UNCHANGED <<calls, mutex, pc, frame, regions, scan>>

InsertChunkOf(chunk) ==
    LET r == InsertChunkResult(chunks, chunk)
    IN  /\ chunks' = r.chunks
        /\ committed' = r.chunks
        /\ lastOp' = [NoOp EXCEPT !.op = "InsertChunk", !.chunk = chunk,
                                  !.threw = r.threw]
        /\ calls' = calls + 1
        /\ UNCHANGED <<phase, addressSpace, base, mutex, pc, frame, regions, scan>>

\* InsertChunk with a chunk inside the address space
InsertChunk ==
    /\ phase = "ready"
    /\ calls < MaxInserts
    /\ \E chunk \in ChunksOver(InsertPoints) : InsertChunkOf(chunk)

\* InsertChunk with a chunk that ends past the end of the address space
InsertChunkBeyond ==
    /\ phase = "ready"
    /\ calls < MaxInserts
    /\ \E chunk \in ChunksOver(InsertPoints \cup PointsBeyond) \ ChunksOver(InsertPoints) :
         InsertChunkOf(chunk)

Get ==
    /\ phase = "ready"
    /\ \E ptr \in QueryPoints :
         LET r == GetResult(chunks, ptr)
         IN  lastOp' = [NoOp EXCEPT !.op = "Get", !.ptr = ptr,
                                    !.found = r.found, !.ret = r.chunk]
    /\ UNCHANGED <<phase, addressSpace, base, chunks, calls, committed, mutex, pc, frame, regions, scan>>

GetProgramSize ==
    /\ phase = "ready"
    /\ lastOp' = [NoOp EXCEPT !.op = "GetProgramSize",
                              !.size = GetProgramSizeResult(chunks)]
    /\ UNCHANGED <<phase, addressSpace, base, chunks, calls, committed, mutex, pc, frame, regions, scan>>

Next ==
    \/ InitializeVmm
    \/ InsertChunk
    \/ Get
    \/ GetProgramSize

Spec == Init /\ [][Next]_vars

NextUnchecked ==
    \/ InitializeVmm
    \/ InsertChunk
    \/ InsertChunkBeyond
    \/ Get
    \/ GetProgramSize

\* The same manager with callers that also pass chunks outside the address space
SpecUnchecked == Init /\ [][NextUnchecked]_vars

----------------------------------------------------------------------------
(* Initialisation: InitializeVmm followed pass by pass over the host's     *)
(* mapping table, and InitializeRegions                                    *)

\* Lines a host mapping table may hold, in ascending address order.  The
\* third begins exactly BaseSize36 pages above the aligned end of the first.
CarveoutMappings ==
    << [start |-> 16,       end |-> 100000],
       [start |-> 16,       end |-> 98100000],
       [start |-> AlignUp(100000, CarveoutAlignment) + BaseSize36,
        end   |-> AlignUp(100000, CarveoutAlignment) + BaseSize36 + 100],
       [start |-> 40000000, end |-> 40000100],
       [start |-> 134217000, end |-> 134217728] >>

RECURSIVE InOrder(_)
\* The elements of a set of line numbers as an ascending sequence
InOrder(S) ==
    IF S = {} THEN <<>>
    ELSE LET least == CHOOSE i \in S : \A j \in S : i <= j
         IN  <<least>> \o InOrder(S \ {least})

\* The tables: up to MaxLines lines, ascending and not overlapping
CarveoutTables ==
    { maps \in { [k \in 1..Cardinality(S) |-> CarveoutMappings[InOrder(S)[k]]] :
                 S \in { T \in SUBSET (1..Len(CarveoutMappings)) :
                           T # {} /\ Cardinality(T) <= MaxLines } } :
        \A k \in 1..(Len(maps) - 1) : maps[k].end <= maps[k + 1].start }

\* The switch on type, and the locals of the loop as declared
InitializeVmmEnter ==
    /\ phase = "new"
    /\ scan.pc = "idle"
    /\ \E type \in AddressSpaceTypes, maps \in CarveoutTables :
         IF type = "AddressSpace32Bit"
         THEN /\ phase' = "failed"
              /\ lastOp' = [NoOp EXCEPT !.op = "InitializeVmm", !.threw = TRUE]
              /\ UNCHANGED <<addressSpace, base, scan>>
         ELSE /\ addressSpace' = Region(0, IF type = "AddressSpace36Bit"
                                           THEN AddressSpaceSize36
                                           ELSE AddressSpaceSize39)
              /\ base' = [base EXCEPT !.size = IF type = "AddressSpace36Bit"
                                               THEN BaseSize36 ELSE BaseSize39]
              /\ scan' = [pc |-> "loop", maps |-> maps, line |-> 1, start |-> 0,
                          alignedStart |-> 0]
              /\ UNCHANGED <<phase, lastOp>>
    /\ UNCHANGED <<chunks, calls, committed, mutex, pc, frame, regions>>

\* One pass of the do/while loop.  Line Len(maps) + 1 is the pass made after
\* the last newline, where the text has ended: what is read there is not
\* fixed (tailFits), and the search for '-' fails and wraps to the first line.
InitializeVmmPass ==
    /\ scan.pc = "loop"
    /\ \E tailFits \in BOOLEAN :
         LET listed == scan.line <= Len(scan.maps)
             fits == IF listed
                     THEN scan.maps[scan.line].start - scan.start
                            > base.size + (scan.alignedStart - scan.start)
                     ELSE tailFits
             nextStart == IF listed THEN scan.maps[scan.line].end
                          ELSE scan.maps[1].start
             nextAligned == AlignUp(nextStart, CarveoutAlignment)
         IN  IF fits
             THEN /\ base' = [base EXCEPT !.address = scan.alignedStart]
                  /\ scan' = [scan EXCEPT !.pc = "after"]
             ELSE /\ scan' = [scan EXCEPT
                                !.start = nextStart,
                                !.alignedStart = nextAligned,
                                !.line = IF listed THEN scan.line + 1 ELSE scan.line,
                                !.pc = IF nextAligned + base.size > addressSpace.size
                                          \/ ~listed
                                       THEN "after" ELSE "loop"]
                  /\ UNCHANGED base
    /\ UNCHANGED <<phase, addressSpace, chunks, lastOp, calls, committed, mutex, pc, frame,
                   regions>>

\* The throw when base.address was left unset; the reservation and the chunk
\* list otherwise
InitializeVmmReturn ==
    /\ scan.pc = "after"
    /\ IF base.address = 0
       THEN /\ phase' = "failed"
            /\ lastOp' = [NoOp EXCEPT !.op = "InitializeVmm", !.threw = TRUE]
            /\ UNCHANGED <<chunks, committed>>
       ELSE /\ phase' = "ready"
            /\ lastOp' = [NoOp EXCEPT !.op = "InitializeVmm"]
            /\ chunks' = InitialChunks(addressSpace)
            /\ committed' = InitialChunks(addressSpace)
    /\ scan' = [scan EXCEPT !.pc = "done"]
    /\ UNCHANGED <<addressSpace, base, calls, mutex, pc, frame, regions>>

\* The code ranges InitializeRegions is called with: around both ends of the
\* code sub-region
CodeStarts ==
    { a \in { base.address - CarveoutAlignment, base.address, base.address + 1,
              base.address + CodeSize - 1, base.address + CodeSize,
              base.address + CodeSize + 1 } : a >= 0 }

CodeSizes == {0, 1, CodeSize - 1, CodeSize, CodeSize + 1}

InitializeRegions ==
    /\ phase \in {"new", "ready"}
    /\ scan.pc \in {"idle", "done"}
    /\ \E codeStart \in CodeStarts, size \in CodeSizes :
         LET r == InitializeRegionsResult(addressSpace, base, regions, codeStart, size)
         IN  /\ regions' = r.regions
             /\ lastOp' = [NoOp EXCEPT !.op = "InitializeRegions", !.threw = r.threw,
                                       !.codeStart = codeStart, !.codeSize = size]
    /\ UNCHANGED <<phase, addressSpace, base, chunks, calls, committed, mutex, pc, frame,
                   scan>>

NextLayout ==
    \/ InitializeVmmEnter
    \/ InitializeVmmPass
    \/ InitializeVmmReturn
    \/ InitializeRegions

SpecLayout == Init /\ [][NextLayout]_vars

----------------------------------------------------------------------------
(* The manager called from several threads: every call in its steps.  What a *)
(* call returns is in its frame when it is about to return.                 *)

\* std::unique_lock lock(mutex): waits until no thread holds the mutex
LockUnique(t) ==
    /\ mutex.writer = "none"
    /\ mutex.readers = {}
    /\ mutex' = [mutex EXCEPT !.writer = t]

\* std::shared_lock lock(mutex): waits until no thread holds it exclusively
LockShared(t) ==
    /\ mutex.writer = "none"
    /\ mutex' = [mutex EXCEPT !.readers = @ \cup {t}]

\* The lock going out of scope
Unlock(t) ==
    mutex' = [writer |-> IF mutex.writer = t THEN "none" ELSE mutex.writer,
              readers |-> mutex.readers \ {t}]

\* An InsertChunk that takes the mutex shared
InsertChunkLockShared(t) == LockShared(t)

\* The lock InsertChunk takes on entry
InsertChunkLock(t) == LockUnique(t)

\* The lock Get takes on entry
GetLock(t) == LockShared(t)

\* Every running GetProgramSize learns of the list a whole InsertChunk left
NoteCommitted(frames, list) ==
    [u \in Threads |->
        IF pc[u] = "size_loop"
        THEN [frames[u] EXCEPT !.seen = @ \cup {GetProgramSizeResult(list)}]
        ELSE frames[u]]

\* The chunks the threads insert: both ends among the 2 MiB steps from
\* base.address on
ThreadChunks ==
    ChunksOver({ base.address + k * CarveoutAlignment : k \in 0..GridSteps })

InsertChunkEnter(t) ==
    /\ phase = "ready"
    /\ pc[t] = "idle"
    /\ calls < MaxInserts
    /\ InsertChunkLock(t)
    /\ \E chunk \in ThreadChunks :
         frame' = [frame EXCEPT ![t] = [NoFrame EXCEPT !.chunk = chunk]]
    /\ pc' = [pc EXCEPT ![t] = "insert_locate"]
    /\ calls' = calls + 1
    /\ UNCHANGED <<phase, addressSpace, base, chunks, lastOp, committed, regions, scan>>

\* The first upper_bound and the throw
InsertChunkLocate(t) ==
    /\ pc[t] = "insert_locate"
    /\ LET upper == LocateUpper(chunks, frame[t].chunk)
       IN  IF upper = 1
           THEN /\ Unlock(t)
                /\ pc' = [pc EXCEPT ![t] = "idle"]
                /\ frame' = [frame EXCEPT ![t] = NoFrame]
           ELSE /\ pc' = [pc EXCEPT ![t] = "insert_erase"]
                /\ frame' = [frame EXCEPT ![t].upper = upper]
                /\ UNCHANGED mutex
    /\ UNCHANGED <<phase, addressSpace, base, chunks, lastOp, calls, committed, regions, scan>>

\* The erase and the truncation of upper
InsertChunkErase(t) ==
    /\ pc[t] = "insert_erase"
    /\ chunks' = EraseCovered(chunks, frame[t].chunk)
    /\ pc' = [pc EXCEPT ![t] = "insert_resolve"]
    /\ UNCHANGED <<phase, addressSpace, base, lastOp, calls, committed, mutex, frame, regions, scan>>

\* The resolution against lower: the last change InsertChunk makes
InsertChunkResolve(t) ==
    /\ pc[t] = "insert_resolve"
    /\ chunks' = ResolveLower(chunks, frame[t].upper, frame[t].chunk)
    /\ committed' = chunks'
    /\ frame' = NoteCommitted(frame, chunks')
    /\ pc' = [pc EXCEPT ![t] = "insert_return"]
    /\ UNCHANGED <<phase, addressSpace, base, lastOp, calls, mutex, regions, scan>>

InsertChunkReturn(t) ==
    /\ pc[t] = "insert_return"
    /\ Unlock(t)
    /\ pc' = [pc EXCEPT ![t] = "idle"]
    /\ frame' = [frame EXCEPT ![t] = NoFrame]
    /\ UNCHANGED <<phase, addressSpace, base, chunks, lastOp, calls, committed, regions, scan>>

GetEnter(t) ==
    /\ phase = "ready"
    /\ pc[t] = "idle"
    /\ GetLock(t)
    /\ \E ptr \in QueryPoints :
         frame' = [frame EXCEPT ![t] = [NoFrame EXCEPT !.ptr = ptr]]
    /\ pc' = [pc EXCEPT ![t] = "get_search"]
    /\ UNCHANGED <<phase, addressSpace, base, chunks, lastOp, calls, committed, regions, scan>>

GetSearch(t) ==
    /\ pc[t] = "get_search"
    /\ LET r == GetResult(chunks, frame[t].ptr)
       IN  frame' = [frame EXCEPT ![t].found = r.found, ![t].ret = r.chunk]
    /\ pc' = [pc EXCEPT ![t] = "get_return"]
    /\ UNCHANGED <<phase, addressSpace, base, chunks, lastOp, calls, committed, mutex, regions, scan>>

GetReturn(t) ==
    /\ pc[t] = "get_return"
    /\ Unlock(t)
    /\ pc' = [pc EXCEPT ![t] = "idle"]
    /\ frame' = [frame EXCEPT ![t] = NoFrame]
    /\ UNCHANGED <<phase, addressSpace, base, chunks, lastOp, calls, committed, regions, scan>>

\* GetProgramSize takes no lock: the range-for fixes begin and end on entry
GetProgramSizeEnter(t) ==
    /\ phase = "ready"
    /\ pc[t] = "idle"
    /\ frame' = [frame EXCEPT ![t] =
                    [NoFrame EXCEPT !.index = 1, !.end = Len(chunks) + 1,
                                    !.seen = {GetProgramSizeResult(committed)}]]
    /\ pc' = [pc EXCEPT ![t] = "size_loop"]
    /\ UNCHANGED <<phase, addressSpace, base, chunks, lastOp, calls, committed, mutex, regions, scan>>

\* One pass of the loop.  An iterator that a concurrent erase has left past
\* the end of the list reads storage the list no longer owns: what it finds
\* there is not fixed, and the pass may add nothing or the size of any chunk.
GetProgramSizeStep(t) ==
    /\ pc[t] = "size_loop"
    /\ frame[t].index # frame[t].end
    /\ \E add \in IF frame[t].index <= Len(chunks)
                  THEN { IF chunks[frame[t].index].state # "Unmapped"
                         THEN chunks[frame[t].index].size ELSE 0 }
                  ELSE {0} \cup { c.size : c \in ThreadChunks } :
         frame' = [frame EXCEPT ![t].size = @ + add, ![t].index = @ + 1]
    /\ UNCHANGED <<phase, addressSpace, base, chunks, lastOp, calls, committed, mutex, pc, regions, scan>>

GetProgramSizeReturn(t) ==
    /\ pc[t] = "size_loop"
    /\ frame[t].index = frame[t].end
    /\ pc' = [pc EXCEPT ![t] = "idle"]
    /\ frame' = [frame EXCEPT ![t] = NoFrame]
    /\ UNCHANGED <<phase, addressSpace, base, chunks, lastOp, calls, committed, mutex, regions, scan>>

NextThreads ==
    \/ InitializeVmm
    \/ \E t \in Threads :
         \/ InsertChunkEnter(t)
         \/ InsertChunkLocate(t)
         \/ InsertChunkErase(t)
         \/ InsertChunkResolve(t)
         \/ InsertChunkReturn(t)
         \/ GetEnter(t)
         \/ GetSearch(t)
         \/ GetReturn(t)
         \/ GetProgramSizeEnter(t)
         \/ GetProgramSizeStep(t)
         \/ GetProgramSizeReturn(t)

SpecThreads == Init /\ [][NextThreads]_vars

----------------------------------------------------------------------------
(* Properties *)

End(chunk) == chunk.ptr + chunk.size

Contains(chunk, a) == chunk.ptr <= a /\ a < End(chunk)

InBase(a) == base.address <= a /\ a < base.address + base.size

InAddressSpace(a) ==
    addressSpace.address <= a /\ a < addressSpace.address + addressSpace.size

\* What Get(a) classifies a as on list: nothing, or a classification
Classified(list, a) ==
    LET r == GetResult(list, a)
    IN  IF r.found THEN [found |-> TRUE, class |-> ClassOf(r.chunk)]
        ELSE [found |-> FALSE, class |-> ClassOf(NoChunk)]

\* The last step was a whole InsertChunk call that returned
Inserted == lastOp.op = "InsertChunk" /\ ~lastOp.threw

\* C1: once initialised, the chunk list starts at base.address, ends at
\* base.address + base.size, and every chunk ends where the next one begins.
C1_Coverage ==
    phase = "ready" =>
        /\ Len(chunks) >= 1
        /\ chunks[1].ptr = base.address
        /\ End(chunks[Len(chunks)]) = base.address + base.size
        /\ \A i \in 1..(Len(chunks) - 1) : End(chunks[i]) = chunks[i + 1].ptr

\* C2: no two adjacent chunks of the list are compatible: no two neighbours
\* have equal state, equal permission and equal attributes.
C2_Maximality ==
    \A i \in 1..(Len(chunks) - 1) : ClassOf(chunks[i]) # ClassOf(chunks[i + 1])

\* C3: after InsertChunk(c) has returned, Get(a) finds, for every address a
\* of c's range, a chunk with c's state, permission and attributes.
C3_PaintEffect ==
    Inserted =>
        \A a \in Probes :
            Contains(lastOp.chunk, a) =>
                Classified(chunks, a) = [found |-> TRUE, class |-> ClassOf(lastOp.chunk)]

\* C3 witness: an InsertChunk over a list of several chunks has painted a
\* range of more than one grid step that Get now reports with its class.
C3_Witness ==
    /\ Inserted
    /\ calls = MaxInserts
    /\ Len(chunks) >= 3
    /\ lastOp.chunk.size > CarveoutAlignment
    /\ lastOp.chunk.state = "Heap"
    /\ \A a \in Probes :
          Contains(lastOp.chunk, a) =>
              Classified(chunks, a) = [found |-> TRUE, class |-> ClassOf(lastOp.chunk)]

\* C4: an InsertChunk(c) that returns leaves Get(a) with the same state,
\* permission and attributes for every address a of base outside c's range.
C4_Frame ==
    [][ (calls' = calls + 1 /\ lastOp'.op = "InsertChunk" /\ ~lastOp'.threw) =>
            \A a \in Probes :
                (InBase(a) /\ ~Contains(lastOp'.chunk, a)) =>
                    Classified(chunks', a) = Classified(chunks, a) ]_vars

\* C5: for every address a of base, Get(a) returns a chunk, and it is the one
\* chunk of the list whose range contains a.
C5_QueryInsideBase ==
    phase = "ready" =>
        \A a \in Probes :
            InBase(a) =>
                LET r == GetResult(chunks, a)
                    holders == { i \in 1..Len(chunks) : Contains(chunks[i], a) }
                IN  /\ r.found
                    /\ Cardinality(holders) = 1
                    /\ \A i \in holders : chunks[i] = r.chunk

InsertSection == {"insert_locate", "insert_erase", "insert_resolve", "insert_return"}

InsertChanging == {"insert_resolve"}

GetSection == {"get_search", "get_return"}

\* C7: at most one InsertChunk is inside its critical section, no Get is
\* inside its own while an InsertChunk is, and what a Get returns is what the
\* list held after the last whole InsertChunk.
C7_WriterExclusion ==
    /\ Cardinality({ t \in Threads : pc[t] \in InsertSection }) <= 1
    /\ \A t \in Threads : pc[t] \in GetSection =>
          /\ \A u \in Threads : pc[u] \notin InsertSection
          /\ chunks = committed
    /\ \A t \in Threads : pc[t] \in InsertSection => mutex.writer = t
    /\ \A t \in Threads : pc[t] = "get_return" =>
          LET r == GetResult(committed, frame[t].ptr)
          IN  frame[t].found = r.found /\ frame[t].ret = r.chunk

\* C7 witness: after an insertion, one Get is about to return a chunk of
\* base while another thread is inside Get as well.
C7_Witness ==
    \E t \in Threads, u \in Threads :
        /\ t # u
        /\ pc[t] = "get_return"
        /\ frame[t].found
        /\ frame[t].ret.state = "Heap"
        /\ pc[u] = "get_search"
        /\ calls >= 1

\* C8: GetProgramSize holds the mutex during its traversal, the traversal
\* never runs while an InsertChunk is inside its critical section, and the
\* total it returns is the total of the list as a whole InsertChunk left it.
C8_AggregateSnapshot ==
    \A t \in Threads : pc[t] = "size_loop" =>
        /\ t \in mutex.readers \/ mutex.writer = t
        /\ \A u \in Threads : pc[u] \notin InsertChanging
        /\ frame[t].index = frame[t].end => frame[t].size \in frame[t].seen

\* C9: an InsertChunk whose range is not entirely inside base throws and
\* leaves the chunk list as it was.
C9_OutOfRangeRejected ==
    [][ (calls' = calls + 1 /\ lastOp'.op = "InsertChunk"
            /\ ~(InBase(lastOp'.chunk.ptr)
                    /\ End(lastOp'.chunk) <= base.address + base.size)) =>
            (lastOp'.threw /\ chunks' = chunks) ]_vars

RegionsLaidOut == lastOp.op = "InitializeRegions" /\ ~lastOp.threw

RegionNames == {"code", "alias", "heap", "stack", "tlsIo"}

\* Two Regions share an address, as half-open ranges
Overlap(r, q) ==
    /\ r.address < q.address + q.size
    /\ q.address < r.address + r.size
    /\ r.size > 0
    /\ q.size > 0

\* C12: after an InitializeRegions that returned, code, alias, heap, stack
\* and tlsIo are pairwise non-overlapping half-open ranges, and each lies
\* inside [base.address, base.address + base.size).
C12_LayoutDisjoint ==
    RegionsLaidOut =>
        /\ \A m \in RegionNames, n \in RegionNames :
              m # n => ~Overlap(regions[m], regions[n])
        /\ \A n \in RegionNames :
              /\ base.address <= regions[n].address
              /\ regions[n].address + regions[n].size <= base.address + base.size

\* C13: an InitializeRegions(codeStart, size) that returned had
\* code.address <= codeStart and codeStart + size <= code.address + code.size.
C13_CodeRangeValidated ==
    RegionsLaidOut =>
        /\ regions.code.address <= lastOp.codeStart
        /\ lastOp.codeStart + lastOp.codeSize
              <= regions.code.address + regions.code.size

\* The gap after line k of the table can hold the carveout from its aligned
\* start: the carveout ends by the next line's start and by the ceiling
GapHolds(maps, k) ==
    /\ AlignUp(maps[k].end, CarveoutAlignment) + base.size <= maps[k + 1].start
    /\ AlignUp(maps[k].end, CarveoutAlignment) + base.size
          <= addressSpace.address + addressSpace.size

\* C14: the scan ends within one pass per line of the table and one more; a
\* successful InitializeVmm has chosen a base.address that is a multiple of
\* 2 MiB, is the aligned end of the line before the lowest gap between
\* consecutive lines that can hold base.size, whose range meets no line and
\* ends by the ceiling; with no such gap InitializeVmm has thrown.
C14_CarveoutSelection ==
    /\ scan.pc = "loop" => scan.line <= Len(scan.maps) + 1
    /\ (scan.pc = "done" /\ phase = "ready") =>
          /\ base.address % CarveoutAlignment = 0
          /\ \E k \in 1..(Len(scan.maps) - 1) :
                /\ base.address = AlignUp(scan.maps[k].end, CarveoutAlignment)
                /\ GapHolds(scan.maps, k)
                /\ \A j \in 1..(k - 1) : ~GapHolds(scan.maps, j)
          /\ \A k \in 1..Len(scan.maps) :
                \/ scan.maps[k].end <= base.address
                \/ base.address + base.size <= scan.maps[k].start
          /\ base.address + base.size <= addressSpace.address + addressSpace.size
    /\ (scan.pc = "done" /\ \A k \in 1..(Len(scan.maps) - 1) : ~GapHolds(scan.maps, k)) =>
          phase = "failed"

\* This step is a whole InsertChunk call that returns; its chunk is
\* lastOp'.chunk
InsertStep == calls' = calls + 1 /\ lastOp'.op = "InsertChunk" /\ ~lastOp'.threw

\* The list with the chunks at positions first..last replaced by pieces
Replaced(list, first, last, pieces) ==
    SubSeq(list, 1, first - 1) \o pieces \o SubSeq(list, last + 1, Len(list))

\* C11: an InsertChunk of a chunk strictly inside the only chunk of the list,
\* with another classification, leaves exactly the left remainder, the chunk
\* and the right remainder; and an InsertChunk of a chunk that begins exactly
\* at the end of a compatible chunk leaves one chunk that begins where that
\* chunk began, has its classification and reaches the end of the new chunk.
C11_SplitThenMerge ==
    [][ InsertStep =>
          LET c == lastOp'.chunk
          IN  /\ ( /\ Len(chunks) = 1
                   /\ chunks[1].ptr < c.ptr
                   /\ End(c) < End(chunks[1])
                   /\ ~IsCompatible(c, chunks[1]) ) =>
                     chunks' = << [chunks[1] EXCEPT !.size = c.ptr - chunks[1].ptr],
                                  c,
                                  [chunks[1] EXCEPT !.ptr = End(c),
                                                    !.size = End(chunks[1]) - End(c)] >>
              /\ \A i \in 1..Len(chunks) :
                    (End(chunks[i]) = c.ptr /\ chunks[i].size > 0
                        /\ IsCompatible(c, chunks[i])) =>
                       \E j \in 1..Len(chunks') :
                          /\ chunks'[j].ptr = chunks[i].ptr
                          /\ End(chunks'[j]) >= End(c)
                          /\ ClassOf(chunks'[j]) = ClassOf(c) ]_vars

RECURSIVE MappedTotal(_, _)
\* The sum of the sizes of the chunks of list at the positions of S that are
\* not Unmapped
MappedTotal(list, S) ==
    IF S = {} THEN 0
    ELSE LET i == CHOOSE x \in S : TRUE
         IN  (IF list[i].state = "Unmapped" THEN 0 ELSE list[i].size)
                + MappedTotal(list, S \ {i})

\* C15: a GetProgramSize call made while no InsertChunk is running returns
\* the sum of the sizes of the chunks whose state is not Unmapped, and
\* leaves the chunk list as it was.
C15_AggregateCorrect ==
    [][ lastOp'.op = "GetProgramSize" =>
          /\ chunks' = chunks
          /\ lastOp'.size =
                MappedTotal(chunks, 1..Len(chunks)) ]_vars

\* C15 witness: GetProgramSize has returned a total above zero on a list
\* that holds two chunks that are not Unmapped and an Unmapped one.
C15_Witness ==
    /\ lastOp.op = "GetProgramSize"
    /\ lastOp.size > 0
    /\ calls >= 2
    /\ Cardinality({ i \in 1..Len(chunks) : chunks[i].state # "Unmapped" }) >= 2
    /\ \E i \in 1..Len(chunks) : chunks[i].state = "Unmapped" /\ chunks[i].size > 0
    /\ lastOp.size = MappedTotal(chunks, 1..Len(chunks))

\* C16: an InsertChunk over exactly the range of a chunk M whose neighbours L
\* and R adjoin it, with the classification of both L and R, leaves one chunk
\* from L.ptr to the end of R in place of the three and every other chunk as
\* it was.
C16_MergeCorrect ==
    [][ InsertStep =>
          LET c == lastOp'.chunk
          IN  \A i \in 2..(Len(chunks) - 1) :
                 ( /\ chunks[i].ptr = c.ptr
                   /\ chunks[i].size = c.size
                   /\ End(chunks[i - 1]) = chunks[i].ptr
                   /\ End(chunks[i]) = chunks[i + 1].ptr
                   /\ IsCompatible(c, chunks[i - 1])
                   /\ IsCompatible(c, chunks[i + 1]) ) =>
                     chunks' = Replaced(chunks, i - 1, i + 1,
                                  << [c EXCEPT !.ptr = chunks[i - 1].ptr,
                                               !.size = End(chunks[i + 1])
                                                          - chunks[i - 1].ptr] >>) ]_vars

\* C17: an InsertChunk of a chunk c that is incompatible with a chunk E,
\* smaller than E and inside E's range replaces E by the left remainder (when
\* c begins after E), c, and the right remainder (when c ends before E), the
\* remainders with E's classification, and leaves every other chunk as it was.
C17_SplitCorrect ==
    [][ InsertStep =>
          LET c == lastOp'.chunk
          IN  \A i \in 1..Len(chunks) :
                 LET E == chunks[i]
                 IN  ( /\ ~IsCompatible(c, E)
                       /\ c.size < E.size
                       /\ E.ptr <= c.ptr
                       /\ End(c) <= End(E) ) =>
                         chunks' = Replaced(chunks, i, i,
                            (IF E.ptr < c.ptr
                             THEN << [E EXCEPT !.size = c.ptr - E.ptr] >> ELSE <<>>)
                            \o << c >>
                            \o (IF End(c) < End(E)
                                THEN << [E EXCEPT !.ptr = End(c),
                                                  !.size = End(E) - End(c)] >>
                                ELSE <<>>)) ]_vars

\* C18: an InsertChunk whose ptr and size equal those of a chunk E of the
\* list leaves the list with the same number of chunks, every ptr and size as
\* it was, E with the new chunk's classification and every other chunk with
\* its own.
C18_ExactRetag ==
    [][ InsertStep =>
          LET c == lastOp'.chunk
          IN  \A i \in 1..Len(chunks) :
                 (chunks[i].ptr = c.ptr /\ chunks[i].size = c.size) =>
                    /\ Len(chunks') = Len(chunks)
                    /\ \A j \in 1..Len(chunks) :
                          /\ chunks'[j].ptr = chunks[j].ptr
                          /\ chunks'[j].size = chunks[j].size
                          /\ ClassOf(chunks'[j]) =
                                IF j = i THEN ClassOf(c) ELSE ClassOf(chunks[j]) ]_vars

\* C19: the chunk list is strictly ascending by ptr, and every chunk ends at
\* or before the ptr of the next one.
C19_Ordering ==
    \A i \in 1..(Len(chunks) - 1) :
        /\ chunks[i].ptr < chunks[i + 1].ptr
        /\ End(chunks[i]) <= chunks[i + 1].ptr

\* C20: every chunk of the list has a size above zero.
C20_NoEmptyChunks ==
    \A i \in 1..Len(chunks) : chunks[i].size > 0

=============================================================================
